---------------------------- MODULE Spec2Model ----------------------------
(***************************************************************************)
(* Model of the coordinate -> address pipeline of etl_project.             *)
(*                                                                         *)
(*   src/transform_db.py               Converter (current pipeline)        *)
(*   src/transform_csv_to_database.py  Converter (earlier pipeline)        *)
(*                                                                         *)
(* Python values are modelled as follows.                                  *)
(*   dict   an insertion-ordered sequence of <<key, value>> pairs          *)
(*   None   as a dict value: the string NoneValue; as a function result:   *)
(*          the record PyNone (a dict result is PyDict(items))             *)
(*   float  an opaque string token (the code never computes with them)     *)
(*   list of type tags: a set (the code only tests membership with `in`)   *)
(***************************************************************************)
EXTENDS Naturals, Sequences, FiniteSets

VARIABLES
    dataset,            \* the rows of the input DataFrame, in input order
    columns,            \* the column labels of the input DataFrame
    row,                \* 1-based position of the loop over dataset.iterrows()
    pc,                 \* position inside the loop body / function under test
    result,             \* value returned by get_address_from_coordinates
    complete_address,   \* local complete_address of the loop body
    coordinate_points,  \* table coordinate_points, in insertion order
    addresses,          \* table addresses, in insertion order
    log,                \* records handed to the logger, in order
    status,             \* "running" | "returned" | "SystemExit" | "KeyError" | ...
    row_state,          \* per input row: the stage it ended in ("Pending" before)
    calls,              \* external calls issued so far: <<operation, row>>
    arg,                \* argument of the function under test (function specs)
    valid               \* value returned by is_address_valid ("unset" before)

vars == <<dataset, columns, row, pc, result, complete_address, coordinate_points,
          addresses, log, status, row_state, calls, arg, valid>>

---------------------------------------------------------------------------
(* Bounds *)

MaxRows == 3

MaxComponents == 2

MaxExtraKeys == 2

---------------------------------------------------------------------------
(* Python values *)

NoneValue == "None"

PyNone == [py |-> "None"]

PyDict(items) == [py |-> "dict", items |-> items]

\* bool(v) for a value that is None or a dict
Truthy(v) == v.py = "dict" /\ v.items # <<>>

\* list(d.keys()): the keys in insertion order
Keys(d) == [i \in 1..Len(d) |-> d[i][1]]

KeySet(d) == {d[i][1] : i \in 1..Len(d)}

\* d.get(k): the value stored under k, None when k is absent
DictGet(d, k) ==
    IF k \in KeySet(d)
    THEN d[CHOOSE i \in 1..Len(d) : d[i][1] = k][2]
    ELSE NoneValue

\* d.update({k: v}): replaces the value in place, or appends a new key
DictUpdate(d, k, v) ==
    IF k \in KeySet(d)
    THEN [i \in 1..Len(d) |-> IF d[i][1] = k THEN <<k, v>> ELSE d[i]]
    ELSE Append(d, <<k, v>>)

\* component.get(k) / component.get(k, default) on a geocoder component
ComponentGet(component, k, default) ==
    IF k \in DOMAIN component THEN component[k] ELSE default

---------------------------------------------------------------------------
(* String order, as used by list.sort() on the key lists *)

Alphabet ==
    <<"city", "country", "formatted_address", "latitude", "latitute",
      "longitude", "longitute", "neighborhood", "place_id", "plus_code",
      "postal_code", "state", "street_name", "street_number">>

StrRank(s) == CHOOSE i \in 1..Len(Alphabet) : Alphabet[i] = s

StrLess(a, b) == StrRank(a) < StrRank(b)

RECURSIVE InsertSorted(_, _)
InsertSorted(x, s) ==
    IF s = <<>> THEN <<x>>
    ELSE IF StrLess(x, Head(s)) THEN <<x>> \o s
    ELSE <<Head(s)>> \o InsertSorted(x, Tail(s))

\* the list after list.sort()
RECURSIVE Sorted(_)
Sorted(s) ==
    IF s = <<>> THEN <<>>
    ELSE InsertSorted(Head(s), Sorted(Tail(s)))

---------------------------------------------------------------------------
(* Converter.is_address_valid *)

\* the local list address_components of transform_db.py
RequiredKeys ==
    <<"country", "state", "city", "neighborhood", "street_number",
      "street_name", "postal_code", "latitude", "longitude">>

\* the local list address_components of transform_csv_to_database.py
RequiredKeysCsv ==
    <<"country", "state", "city", "neighborhood", "street_number",
      "street_name", "postal_code", "latitute", "longitute">>

SeqToSet(s) == {s[i] : i \in 1..Len(s)}

\* mutant: accepts every address whose keys are all known (a subset test)
is_address_valid_subset(address) ==
    \A i \in 1..Len(address) : address[i][1] \in SeqToSet(RequiredKeys)

\* transform_db.py: both key lists are sorted and compared as lists
is_address_valid(address) ==
    LET address_keys == Sorted(Keys(address))
        address_components == Sorted(RequiredKeys)
    IN  address_keys = address_components

\* transform_csv_to_database.py: returns False at the first unknown key,
\* True when the loop over the keys ends
RECURSIVE is_address_valid_csv_loop(_)
is_address_valid_csv_loop(address_keys) ==
    IF address_keys = <<>> THEN TRUE
    ELSE IF Head(address_keys) \notin SeqToSet(RequiredKeysCsv) THEN FALSE
    ELSE is_address_valid_csv_loop(Tail(address_keys))

is_address_valid_csv(address) == is_address_valid_csv_loop(Keys(address))

---------------------------------------------------------------------------
(* Converter.get_address_from_address_components *)

\* the seven `if "<tag>" in component_types` statements, in source order:
\* <<tag, field written, component attribute read>>
TagRules ==
    <<<<"country", "country", "long_name">>,
      <<"administrative_area_level_1", "state", "short_name">>,
      <<"administrative_area_level_2", "city", "long_name">>,
      <<"sublocality_level_1", "neighborhood", "long_name">>,
      <<"street_number", "street_number", "long_name">>,
      <<"route", "street_name", "long_name">>,
      <<"postal_code", "postal_code", "long_name">>>>

\* one `if tag in component_types: address.update({field: component.get(attr)})`
ApplyRule(address, component, rule) ==
    IF rule[1] \in ComponentGet(component, "types", {})
    THEN DictUpdate(address, rule[2], ComponentGet(component, rule[3], NoneValue))
    ELSE address

\* the body of the for loop: the rules from position i on, applied in order
RECURSIVE ApplyRules(_, _, _)
ApplyRules(address, component, i) ==
    IF i > Len(TagRules) THEN address
    ELSE ApplyRules(ApplyRule(address, component, TagRules[i]), component, i + 1)

\* mutant: the first component carrying a tag wins (no overwrite)
RECURSIVE ExtractLoopFirstWins(_, _)
ExtractLoopFirstWins(address, address_components) ==
    IF address_components = <<>> THEN address
    ELSE ApplyRules(ExtractLoopFirstWins(address, Tail(address_components)),
                    Head(address_components), 1)

\* the for loop over address_components
RECURSIVE ExtractLoop(_, _)
ExtractLoop(address, address_components) ==
    IF address_components = <<>> THEN address
    ELSE ExtractLoop(ApplyRules(address, Head(address_components), 1),
                     Tail(address_components))

\* returns the dict when it is non-empty, None (implicitly) otherwise
get_address_from_address_components(address_components) ==
    LET address == ExtractLoop(<<>>, address_components)
    IN  IF address # <<>> THEN PyDict(address) ELSE PyNone

\* mutant: the merged keys are misspelt, as in the earlier pipeline
MergeCoordinatesMisspelt(address, coordinate) ==
    DictUpdate(DictUpdate(address, "latitute", coordinate.latitude),
               "longitute", coordinate.longitude)

\* complete_address.update({"latitude": ..., "longitude": ...})
MergeCoordinates(address, coordinate) ==
    DictUpdate(DictUpdate(address, "latitude", coordinate.latitude),
               "longitude", coordinate.longitude)

\* transform_csv_to_database.py: the keys are spelt latitute / longitute and
\* the values are read by position (coordinate.values[0], coordinate.values[1])
MergeCoordinatesCsv(address, values) ==
    DictUpdate(DictUpdate(address, "latitute", values[1]), "longitute", values[2])

---------------------------------------------------------------------------
(* Inputs *)

\* rows of the CSV file: (latitude, longitude) as read by pandas
Coordinates ==
    {[latitude |-> "-30.03", longitude |-> "-51.23"],
     [latitude |-> "-29.68", longitude |-> "-53.81"]}

RecognizedTags ==
    {"country", "administrative_area_level_1", "administrative_area_level_2",
     "sublocality_level_1", "street_number", "route", "postal_code"}

\* tag lists a geocoder component may carry
TypeSets ==
    {{}, {"political"}, {"locality", "political"},
     {"country", "political"}, {"street_number", "route"},
     RecognizedTags, RecognizedTags \cup {"political"}}
    \cup {{t} : t \in RecognizedTags}
    \cup {RecognizedTags \ {t} : t \in RecognizedTags}

NamePairs ==
    {[long_name |-> "Rio Grande do Sul", short_name |-> "RS"],
     [long_name |-> "Brasil", short_name |-> "BR"]}

\* geocoder components: with both names, without names, without types
Components ==
    {[types |-> t, long_name |-> n.long_name, short_name |-> n.short_name] :
        t \in TypeSets, n \in NamePairs}
    \cup {[types |-> RecognizedTags]}
    \cup {[long_name |-> "Brasil", short_name |-> "BR"]}

SeqsUpTo(S, n) == UNION {[1..k -> S] : k \in 0..n}

ComponentLists == SeqsUpTo(Components, MaxComponents)

\* keys an address may carry besides the required ones
ExtraKeys == <<"formatted_address", "place_id", "plus_code", "latitute", "longitute">>

AllKeys == RequiredKeys \o ExtraKeys

RECURSIVE Reverse(_)
Reverse(s) == IF s = <<>> THEN <<>> ELSE Append(Reverse(Tail(s)), Head(s))

\* the keys of S in the order of AllKeys
KeysInOrder(S) == SelectSeq(AllKeys, LAMBDA k : k \in S)

KeySets ==
    {R \cup E : R \in SUBSET SeqToSet(RequiredKeys),
                E \in {X \in SUBSET SeqToSet(ExtraKeys) : Cardinality(X) <= MaxExtraKeys}}

\* addresses handed to is_address_valid: any key set, two insertion orders,
\* values filled or all null
AddressInputs ==
    {[i \in 1..Len(ks) |-> <<ks[i], v>>] :
        ks \in {KeysInOrder(S) : S \in KeySets} \cup {Reverse(KeysInOrder(S)) : S \in KeySets},
        v \in {"x", NoneValue}}

---------------------------------------------------------------------------
(* is_address_valid applied to one address *)

Idle ==
    /\ dataset = <<>>
    /\ columns = <<>>
    /\ row = 0
    /\ result = PyNone
    /\ coordinate_points = <<>>
    /\ addresses = <<>>
    /\ log = <<>>
    /\ status = "running"
    /\ row_state = <<>>
    /\ calls = <<>>

IdleUnchanged ==
    UNCHANGED <<dataset, columns, row, result, coordinate_points, addresses,
                log, status, row_state, calls>>

InitValidator ==
    /\ Idle
    /\ arg \in AddressInputs
    /\ complete_address = PyNone
    /\ valid = "unset"
    /\ pc = "call"

CallIsAddressValid ==
    /\ pc = "call"
    /\ valid' = is_address_valid(arg)
    /\ pc' = "returned"
    /\ UNCHANGED <<arg, complete_address>>
    /\ IdleUnchanged

NextValidator == CallIsAddressValid

SpecValidator == InitValidator /\ [][NextValidator]_vars

---------------------------------------------------------------------------
(* get_address_from_address_components applied to one component list,      *)
(* followed by the merge and the validation of the loop body               *)

InitExtractor ==
    /\ Idle
    /\ arg \in [address_components : ComponentLists, coordinate : Coordinates]
    /\ complete_address = PyNone
    /\ valid = "unset"
    /\ pc = "call"

CallGetAddress ==
    /\ pc = "call"
    /\ complete_address' = get_address_from_address_components(arg.address_components)
    /\ pc' = "extracted"
    /\ UNCHANGED <<arg, valid>>
    /\ IdleUnchanged

MergeStep ==
    /\ pc = "extracted"
    /\ Truthy(complete_address)
    /\ complete_address' = PyDict(MergeCoordinates(complete_address.items, arg.coordinate))
    /\ pc' = "merged"
    /\ UNCHANGED <<arg, valid>>
    /\ IdleUnchanged

ValidateStep ==
    /\ pc = "merged"
    /\ valid' = is_address_valid(complete_address.items)
    /\ pc' = "validated"
    /\ UNCHANGED <<arg, complete_address>>
    /\ IdleUnchanged

NextExtractor == CallGetAddress \/ MergeStep \/ ValidateStep

SpecExtractor == InitExtractor /\ [][NextExtractor]_vars

---------------------------------------------------------------------------
(* The batch run of transform_db.py: inputs *)

\* column layouts of the CSV file: with and without the optional columns
ColumnLayouts ==
    {<<"latitude", "longitude">>,
     <<"latitude", "longitude", "distance_km", "bearing_degrees">>}

\* one row of the DataFrame: a value per column label
MakeRow(cols, c) ==
    [label \in SeqToSet(cols) |->
        CASE label = "latitude" -> c.latitude
          [] label = "longitude" -> c.longitude
          [] label = "distance_km" -> "1.5"
          [] OTHER -> "90.0"]

Datasets(cols) == SeqsUpTo({MakeRow(cols, c) : c \in Coordinates}, MaxRows)

FullComponents ==
    <<[types |-> RecognizedTags \ {"administrative_area_level_1"},
       long_name |-> "Brasil", short_name |-> "BR"],
      [types |-> {"administrative_area_level_1", "political"},
       long_name |-> "Rio Grande do Sul", short_name |-> "RS"]>>

PartialComponents ==
    <<[types |-> {"country", "political"}, long_name |-> "Brasil", short_name |-> "BR"]>>

UnrecognizedComponents ==
    <<[types |-> {"locality", "political"}, long_name |-> "Brasil", short_name |-> "BR"]>>

\* values reverse_geocode may return: a list of candidates, possibly empty
Responses ==
    {<<>>,
     <<[formatted_address |-> "Brasil"]>>,
     <<[address_components |-> UnrecognizedComponents]>>,
     <<[address_components |-> PartialComponents]>>,
     <<[address_components |-> FullComponents]>>,
     <<[address_components |-> PartialComponents],
       [address_components |-> FullComponents]>>}

\* exceptions an insert may raise: sqlalchemy's IntegrityError, or any other
InsertErrors == {"IntegrityError", "Exception"}

---------------------------------------------------------------------------
(* The batch run of transform_db.py: steps *)

Init ==
    /\ columns \in ColumnLayouts
    /\ dataset \in Datasets(columns)
    /\ row = 1
    /\ pc = "resolve"
    /\ result = <<>>
    /\ complete_address = PyNone
    /\ coordinate_points = <<>>
    /\ addresses = <<>>
    /\ log = <<>>
    /\ status = "running"
    /\ row_state = [k \in 1..Len(dataset) |-> "Pending"]
    /\ calls = <<>>
    /\ arg = PyNone
    /\ valid = "unset"

\* the row held by the loop variable coordinate
Current == dataset[row]

Running == status = "running" /\ row <= Len(dataset)

Call(op, outcome, n) == [op |-> op, row |-> row, outcome |-> outcome, candidates |-> n]

LogRecord(level, text, data) == [level |-> level, text |-> text, data |-> data, at_row |-> row]

\* mutant: the row's state is recorded but the loop does not move on, so the
\* same row is taken again
EndRowNoAdvance(s) ==
    /\ row_state' = [row_state EXCEPT ![row] = s]
    /\ row' = row
    /\ pc' = "resolve"
    /\ result' = <<>>
    /\ complete_address' = PyNone

\* the current row ends in state s; the for loop takes the next row
EndRow(s) ==
    /\ row_state' = [row_state EXCEPT ![row] = s]
    /\ row' = row + 1
    /\ pc' = "resolve"
    /\ result' = <<>>
    /\ complete_address' = PyNone

\* get_address_from_coordinates returns what reverse_geocode returned
GetAddressFromCoordinates(response) ==
    /\ Running
    /\ pc = "resolve"
    /\ result' = response
    /\ calls' = Append(calls, Call("reverse_geocode", "returned", Len(response)))
    /\ pc' = "branch"
    /\ UNCHANGED <<dataset, columns, row, complete_address, coordinate_points,
                   addresses, log, status, row_state, arg, valid>>

\* mutant: the ApiError is logged and swallowed; the caller sees None
ApiErrorSwallowed ==
    /\ Running
    /\ pc = "resolve"
    /\ calls' = Append(calls, Call("reverse_geocode", "ApiError", 0))
    /\ log' = Append(log, LogRecord("CRITICAL", "ApiError", "message"))
    /\ result' = <<>>
    /\ pc' = "branch"
    /\ UNCHANGED <<dataset, columns, row, complete_address, coordinate_points,
                   addresses, status, row_state, arg, valid>>

\* reverse_geocode raises ApiError: logger.critical, then os.sys.exit(1)
ApiError ==
    /\ Running
    /\ pc = "resolve"
    /\ calls' = Append(calls, Call("reverse_geocode", "ApiError", 0))
    /\ log' = Append(log, LogRecord("CRITICAL", "ApiError", "message"))
    /\ status' = "SystemExit"
    /\ row_state' = [row_state EXCEPT ![row] = "AbortedApiFailure"]
    /\ pc' = "exited"
    /\ UNCHANGED <<dataset, columns, row, result, complete_address,
                   coordinate_points, addresses, arg, valid>>

\* mutant: the else branch is missing, an empty result is dropped silently
NotFoundSilent ==
    /\ Running
    /\ pc = "branch"
    /\ result = <<>>
    /\ EndRow("SkippedNotFound")
    /\ UNCHANGED <<dataset, columns, coordinate_points, addresses, log, status,
                   calls, arg, valid>>

\* `if result:` fails: the else branch logs one warning
NotFound ==
    /\ Running
    /\ pc = "branch"
    /\ result = <<>>
    /\ log' = Append(log, LogRecord("WARNING", "Address couldn't be saved to database", result))
    /\ EndRow("SkippedNotFound")
    /\ UNCHANGED <<dataset, columns, coordinate_points, addresses, status,
                   calls, arg, valid>>

\* result[0].get("address_components", "")
AddressComponentsOf(r) == ComponentGet(r[1], "address_components", <<>>)

\* `if address_components:` fails: nothing is done for the row
NoAddressComponents ==
    /\ Running
    /\ pc = "branch"
    /\ result # <<>>
    /\ AddressComponentsOf(result) = <<>>
    /\ EndRow("SkippedEmptyAddress")
    /\ UNCHANGED <<dataset, columns, coordinate_points, addresses, log, status,
                   calls, arg, valid>>

\* get_address_from_address_components, then `if complete_address:`
ExtractAddress ==
    /\ Running
    /\ pc = "branch"
    /\ result # <<>>
    /\ AddressComponentsOf(result) # <<>>
    /\ LET extracted == get_address_from_address_components(AddressComponentsOf(result))
       IN  IF Truthy(extracted)
           THEN /\ complete_address' = extracted
                /\ pc' = "merge"
                /\ UNCHANGED <<row, result, row_state>>
           ELSE EndRow("SkippedEmptyAddress")
    /\ UNCHANGED <<dataset, columns, coordinate_points, addresses, log, status,
                   calls, arg, valid>>

\* complete_address.update(latitude, longitude), then is_address_valid
MergeAndValidate ==
    /\ Running
    /\ pc = "merge"
    /\ LET merged == MergeCoordinates(complete_address.items, Current)
       IN  IF is_address_valid(merged)
           THEN /\ complete_address' = PyDict(merged)
                /\ pc' = "build"
                /\ UNCHANGED <<row, result, row_state>>
           ELSE EndRow("SkippedIncomplete")
    /\ UNCHANGED <<dataset, columns, coordinate_points, addresses, log, status,
                   calls, arg, valid>>

\* labels read by subscript when the coordinate dict is built
CoordinateLabels == <<"latitude", "longitude", "distance_km", "bearing_degrees">>

\* the dict coordinate handed to save_to_database
CoordinateRecord(r) == [label \in SeqToSet(CoordinateLabels) |-> r[label]]

\* the dict addresses handed to save_to_database
AddressRecord(a) == [k \in SeqToSet(RequiredKeys) |-> DictGet(a, k)]

\* coordinate[label] on a row without that label raises KeyError, which
\* nothing catches
BuildRecords ==
    /\ Running
    /\ pc = "build"
    /\ IF SeqToSet(CoordinateLabels) \subseteq DOMAIN Current
       THEN /\ pc' = "insert_coordinate"
            /\ status' = status
       ELSE /\ pc' = "raised"
            /\ status' = "KeyError"
    /\ UNCHANGED <<dataset, columns, row, result, complete_address,
                   coordinate_points, addresses, log, row_state, calls, arg, valid>>

\* mutant: only IntegrityError is caught
HandledOnlyIntegrity(exc) == exc = "IntegrityError"

\* the except clauses of save_to_database: IntegrityError, then Exception
Handled(exc) == exc \in {"IntegrityError", "Exception"}

RowStateOf(exc) ==
    IF exc = "IntegrityError" THEN "SkippedConflict" ELSE "SkippedStoreFailure"

\* an insert raised exc inside the try block of save_to_database
InsertRaised(exc) ==
    IF Handled(exc)
    THEN /\ log' = Append(log, LogRecord("CRITICAL", "exception", exc))
         /\ EndRow(RowStateOf(exc))
         /\ status' = status
    ELSE /\ status' = exc
         /\ pc' = "raised"
         /\ UNCHANGED <<log, row, result, complete_address, row_state>>

\* mutant: each insert has a try block of its own, so the address insert is
\* attempted even when the coordinate insert raised
InsertCoordinateOwnTry(outcome) ==
    /\ Running
    /\ pc = "insert_coordinate"
    /\ calls' = Append(calls, Call("insert_coordinate", outcome, 0))
    /\ IF outcome = "ok"
       THEN /\ coordinate_points' = Append(coordinate_points, CoordinateRecord(Current))
            /\ UNCHANGED log
       ELSE /\ log' = Append(log, LogRecord("CRITICAL", "exception", outcome))
            /\ UNCHANGED coordinate_points
    /\ pc' = "insert_address"
    /\ UNCHANGED <<status, row, result, complete_address, row_state>>
    /\ UNCHANGED <<dataset, columns, addresses, arg, valid>>

\* coordinate_table.insert(coordinate)
InsertCoordinate(outcome) ==
    /\ Running
    /\ pc = "insert_coordinate"
    /\ calls' = Append(calls, Call("insert_coordinate", outcome, 0))
    /\ IF outcome = "ok"
       THEN /\ coordinate_points' = Append(coordinate_points, CoordinateRecord(Current))
            /\ pc' = "insert_address"
            /\ UNCHANGED <<log, status, row, result, complete_address, row_state>>
       ELSE /\ InsertRaised(outcome)
            /\ UNCHANGED coordinate_points
    /\ UNCHANGED <<dataset, columns, addresses, arg, valid>>

\* mutant: both inserts run in one transaction, a failure rolls the first back
InsertAddressTransactional(outcome) ==
    /\ Running
    /\ pc = "insert_address"
    /\ calls' = Append(calls, Call("insert_address", outcome, 0))
    /\ IF outcome = "ok"
       THEN /\ addresses' = Append(addresses, AddressRecord(complete_address.items))
            /\ log' = Append(log, LogRecord("INFO", "Address saved to database",
                                            AddressRecord(complete_address.items)))
            /\ EndRow("Persisted")
            /\ UNCHANGED <<status, coordinate_points>>
       ELSE /\ InsertRaised(outcome)
            /\ coordinate_points' = SubSeq(coordinate_points, 1, Len(coordinate_points) - 1)
            /\ UNCHANGED addresses
    /\ UNCHANGED <<dataset, columns, arg, valid>>

\* addresses_table.insert(address), then the "Address saved" message
InsertAddress(outcome) ==
    /\ Running
    /\ pc = "insert_address"
    /\ calls' = Append(calls, Call("insert_address", outcome, 0))
    /\ IF outcome = "ok"
       THEN /\ addresses' = Append(addresses, AddressRecord(complete_address.items))
            /\ log' = Append(log, LogRecord("INFO", "Address saved to database",
                                            AddressRecord(complete_address.items)))
            /\ EndRow("Persisted")
            /\ UNCHANGED status
       ELSE /\ InsertRaised(outcome)
            /\ UNCHANGED addresses
    /\ UNCHANGED <<dataset, columns, coordinate_points, arg, valid>>

\* iterrows() is exhausted: save_dataset_coordinates_to_database returns
Return ==
    /\ status = "running"
    /\ row > Len(dataset)
    /\ status' = "returned"
    /\ pc' = "returned"
    /\ UNCHANGED <<dataset, columns, row, result, complete_address,
                   coordinate_points, addresses, log, row_state, calls, arg, valid>>

Next ==
    \/ \E response \in Responses : GetAddressFromCoordinates(response)
    \/ ApiError
    \/ NotFound
    \/ NoAddressComponents
    \/ ExtractAddress
    \/ MergeAndValidate
    \/ BuildRecords
    \/ \E outcome \in {"ok"} \cup InsertErrors : InsertCoordinate(outcome)
    \/ \E outcome \in {"ok"} \cup InsertErrors : InsertAddress(outcome)
    \/ Return

Spec == Init /\ [][Next]_vars

\* exit code of the process for a final status
ExitCode ==
    CASE status = "returned" -> 0
      [] status = "SystemExit" -> 1
      [] OTHER -> 1

---------------------------------------------------------------------------
(* The batch run of transform_csv_to_database.py *)

InitCsv ==
    /\ columns \in ColumnLayouts
    /\ dataset \in Datasets(columns)
    /\ row = 1
    /\ pc = "set_trace"
    /\ result = <<>>
    /\ complete_address = PyNone
    /\ coordinate_points = <<>>
    /\ addresses = <<>>
    /\ log = <<>>
    /\ status = "running"
    /\ row_state = [k \in 1..Len(dataset) |-> "Pending"]
    /\ calls = <<>>
    /\ arg = PyNone
    /\ valid = "unset"

\* pdb.set_trace() before the loop: the debugger lets the run continue, or
\* quits it (bdb.BdbQuit)
CsvSetTrace(command) ==
    /\ status = "running"
    /\ pc = "set_trace"
    /\ IF command = "continue"
       THEN pc' = "resolve" /\ status' = status
       ELSE pc' = "raised" /\ status' = "BdbQuit"
    /\ UNCHANGED <<dataset, columns, row, result, complete_address,
                   coordinate_points, addresses, log, row_state, calls, arg, valid>>

CsvGetAddressFromCoordinates(response) ==
    /\ Running
    /\ pc = "resolve"
    /\ result' = response
    /\ calls' = Append(calls, Call("reverse_geocode", "returned", Len(response)))
    /\ pc' = "branch"
    /\ UNCHANGED <<dataset, columns, row, complete_address, coordinate_points,
                   addresses, log, status, row_state, arg, valid>>

CsvApiError ==
    /\ Running
    /\ pc = "resolve"
    /\ calls' = Append(calls, Call("reverse_geocode", "ApiError", 0))
    /\ log' = Append(log, LogRecord("CRITICAL", "ApiError", "message"))
    /\ status' = "SystemExit"
    /\ row_state' = [row_state EXCEPT ![row] = "AbortedApiFailure"]
    /\ pc' = "exited"
    /\ UNCHANGED <<dataset, columns, row, result, complete_address,
                   coordinate_points, addresses, arg, valid>>

CsvNotFound ==
    /\ Running
    /\ pc = "branch"
    /\ result = <<>>
    /\ log' = Append(log, LogRecord("WARNING", "Address couldn't be saved to database", result))
    /\ EndRow("SkippedNotFound")
    /\ UNCHANGED <<dataset, columns, coordinate_points, addresses, status,
                   calls, arg, valid>>

CsvNoAddressComponents ==
    /\ Running
    /\ pc = "branch"
    /\ result # <<>>
    /\ AddressComponentsOf(result) = <<>>
    /\ EndRow("SkippedEmptyAddress")
    /\ UNCHANGED <<dataset, columns, coordinate_points, addresses, log, status,
                   calls, arg, valid>>

CsvExtractAddress ==
    /\ Running
    /\ pc = "branch"
    /\ result # <<>>
    /\ AddressComponentsOf(result) # <<>>
    /\ LET extracted == get_address_from_address_components(AddressComponentsOf(result))
       IN  IF Truthy(extracted)
           THEN /\ complete_address' = extracted
                /\ pc' = "merge"
                /\ UNCHANGED <<row, result, row_state>>
           ELSE EndRow("SkippedEmptyAddress")
    /\ UNCHANGED <<dataset, columns, coordinate_points, addresses, log, status,
                   calls, arg, valid>>

\* coordinate.values
ValuesOf(r) == [i \in 1..Len(columns) |-> r[columns[i]]]

\* the update with the misspelt keys, is_address_valid, and on success the
\* "Address saved" message, which is logged before anything is inserted
CsvMergeAndValidate ==
    /\ Running
    /\ pc = "merge"
    /\ LET merged == MergeCoordinatesCsv(complete_address.items, ValuesOf(Current))
       IN  IF is_address_valid_csv(merged)
           THEN /\ complete_address' = PyDict(merged)
                /\ log' = Append(log, LogRecord("INFO", "Address saved to database", merged))
                /\ pc' = "build"
                /\ UNCHANGED <<row, result, row_state>>
           ELSE /\ EndRow("SkippedIncomplete")
                /\ UNCHANGED log
    /\ UNCHANGED <<dataset, columns, coordinate_points, addresses, status,
                   calls, arg, valid>>

\* the dict literal of coordinate_table.insert reads the four labels
CsvBuildCoordinate ==
    /\ Running
    /\ pc = "build"
    /\ IF SeqToSet(CoordinateLabels) \subseteq DOMAIN Current
       THEN /\ pc' = "insert_coordinate"
            /\ status' = status
       ELSE /\ pc' = "raised"
            /\ status' = "KeyError"
    /\ UNCHANGED <<dataset, columns, row, result, complete_address,
                   coordinate_points, addresses, log, row_state, calls, arg, valid>>

\* coordinate_table.insert: no try block, an exception leaves the function
CsvInsertCoordinate(outcome) ==
    /\ Running
    /\ pc = "insert_coordinate"
    /\ calls' = Append(calls, Call("insert_coordinate", outcome, 0))
    /\ IF outcome = "ok"
       THEN /\ coordinate_points' = Append(coordinate_points, CoordinateRecord(Current))
            /\ pc' = "insert_address"
            /\ status' = status
       ELSE /\ pc' = "raised"
            /\ status' = outcome
            /\ UNCHANGED coordinate_points
    /\ UNCHANGED <<dataset, columns, row, result, complete_address, addresses,
                   log, row_state, arg, valid>>

\* the dict literal of addresses.insert: nine complete_address.get calls
AddressRecordCsv(a) == [k \in SeqToSet(RequiredKeys) |-> DictGet(a, k)]

\* addresses.insert: no try block, an exception leaves the function
CsvInsertAddress(outcome) ==
    /\ Running
    /\ pc = "insert_address"
    /\ calls' = Append(calls, Call("insert_address", outcome, 0))
    /\ IF outcome = "ok"
       THEN /\ addresses' = Append(addresses, AddressRecordCsv(complete_address.items))
            /\ EndRow("Persisted")
            /\ status' = status
       ELSE /\ pc' = "raised"
            /\ status' = outcome
            /\ UNCHANGED <<addresses, row, result, complete_address, row_state>>
    /\ UNCHANGED <<dataset, columns, coordinate_points, log, arg, valid>>

CsvReturn ==
    /\ status = "running"
    /\ pc = "resolve"
    /\ row > Len(dataset)
    /\ status' = "returned"
    /\ pc' = "returned"
    /\ UNCHANGED <<dataset, columns, row, result, complete_address,
                   coordinate_points, addresses, log, row_state, calls, arg, valid>>

NextCsv ==
    \/ \E command \in {"continue", "quit"} : CsvSetTrace(command)
    \/ \E response \in Responses : CsvGetAddressFromCoordinates(response)
    \/ CsvApiError
    \/ CsvNotFound
    \/ CsvNoAddressComponents
    \/ CsvExtractAddress
    \/ CsvMergeAndValidate
    \/ CsvBuildCoordinate
    \/ \E outcome \in {"ok"} \cup InsertErrors : CsvInsertCoordinate(outcome)
    \/ \E outcome \in {"ok"} \cup InsertErrors : CsvInsertAddress(outcome)
    \/ CsvReturn

SpecCsv == InitCsv /\ [][NextCsv]_vars

---------------------------------------------------------------------------
(* Claims about the batch run of transform_db.py *)

NineRequiredNames ==
    {"country", "state", "city", "neighborhood", "street_number",
     "street_name", "postal_code", "latitude", "longitude"}

TerminalStates ==
    {"Persisted", "SkippedNotFound", "SkippedEmptyAddress", "SkippedIncomplete",
     "SkippedConflict", "SkippedStoreFailure"}

StoreSkipped == {"SkippedConflict", "SkippedStoreFailure"}

Rows == 1..Len(dataset)

\* positions in calls of the calls of operation op made for row k
CallsOf(op, k) == {i \in 1..Len(calls) : calls[i].op = op /\ calls[i].row = k}

InsertOps == {"insert_coordinate", "insert_address"}

\* positions in calls of the inserts that succeeded / raised for row k
InsertsOk(op, k) == {i \in CallsOf(op, k) : calls[i].outcome = "ok"}

InsertsRaised(op, k) == {i \in CallsOf(op, k) : calls[i].outcome \in {"IntegrityError", "Exception"}}

\* rows whose resolver call raised ApiError / returned no candidate
ApiFailedRows ==
    {k \in Rows : \E i \in CallsOf("reverse_geocode", k) : calls[i].outcome = "ApiError"}

NotFoundRows ==
    {k \in Rows : \E i \in CallsOf("reverse_geocode", k) :
        calls[i].outcome = "returned" /\ calls[i].candidates = 0}

\* C1: when the resolver call of row k raises ApiError the batch stops there:
\* the rows before k are terminal, no resolver call and no insert is made for
\* a row after k (nor an insert for k), and the run ends with exit code 1.
C1_ApiErrorStopsBatch ==
    \A k \in ApiFailedRows :
        /\ \A j \in 1..(k - 1) : row_state[j] \in TerminalStates
        /\ \A j \in (k + 1)..Len(dataset) :
             /\ row_state[j] = "Pending"
             /\ \A i \in 1..Len(calls) : calls[i].row # j
        /\ \A op \in InsertOps : CallsOf(op, k) = {}
        /\ calls[Len(calls)].op = "reverse_geocode"
        /\ calls[Len(calls)].outcome = "ApiError"
        /\ calls[Len(calls)].row = k
        /\ row_state[k] \notin TerminalStates
        /\ status = "SystemExit"
        /\ ExitCode = 1

\* three rows, the second fails: the first is persisted, the third untouched
C1_Witness ==
    /\ Len(dataset) = 3
    /\ ApiFailedRows = {2}
    /\ row_state[1] = "Persisted"
    /\ row_state[3] = "Pending"
    /\ status = "SystemExit"

\* the step just taken was an insert that raised
InsertJustRaised ==
    /\ Len(calls') = Len(calls) + 1
    /\ calls'[Len(calls')].op \in InsertOps
    /\ calls'[Len(calls')].outcome \in {"IntegrityError", "Exception"}

\* C2: an insert of save_to_database that raises IntegrityError or any other
\* exception is caught there: nothing is raised, the row is skipped, the loop
\* takes the next row, and a run that returns has resolved every row.
C2_InsertErrorsContained ==
    /\ [][InsertJustRaised =>
            /\ status' = "running"
            /\ row' = row + 1
            /\ pc' = "resolve"
            /\ row_state'[row] \in StoreSkipped]_vars
    /\ [](\A k \in Rows :
            (\E op \in InsertOps : InsertsRaised(op, k) # {}) =>
                /\ status \notin {"IntegrityError", "Exception"}
                /\ status = "returned" =>
                     \A j \in (k + 1)..Len(dataset) : CallsOf("reverse_geocode", j) # {})

\* the first row's coordinate insert raised a plain exception, the second
\* row's address insert a conflict, and the third row was still persisted
C2_Witness ==
    /\ Len(dataset) = 3
    /\ \E i \in InsertsRaised("insert_coordinate", 1) : calls[i].outcome = "Exception"
    /\ \E i \in InsertsRaised("insert_address", 2) : calls[i].outcome = "IntegrityError"
    /\ row_state[3] = "Persisted"
    /\ status = "returned"

LogOf(k) == {i \in 1..Len(log) : log[i].at_row = k}

OkInserts(op) == {i \in 1..Len(calls) : calls[i].op = op /\ calls[i].outcome = "ok"}

\* C5: a row whose resolver call returned no candidate is never inserted into
\* either table (no insert is attempted for it), is recorded once as
\* SkippedNotFound with one warning, and the batch goes on to the next row.
C5_NotFoundSkipped ==
    \A k \in NotFoundRows :
        /\ \A op \in InsertOps : CallsOf(op, k) = {}
        /\ Len(coordinate_points) = Cardinality(OkInserts("insert_coordinate"))
        /\ Len(addresses) = Cardinality(OkInserts("insert_address"))
        /\ row_state[k] \in {"Pending", "SkippedNotFound"}
        /\ \A i \in LogOf(k) : log[i].level = "WARNING"
        /\ Cardinality(LogOf(k)) = IF row_state[k] = "SkippedNotFound" THEN 1 ELSE 0
        /\ row > k => row_state[k] = "SkippedNotFound"
        /\ row = k => status = "running"

\* the first row was not found, the second one was persisted after it
C5_Witness ==
    /\ Len(dataset) >= 2
    /\ 1 \in NotFoundRows
    /\ row_state[1] = "SkippedNotFound"
    /\ row_state[2] = "Persisted"
    /\ Len(addresses) = 1

\* the log record names the coordinate pair of input row r
CarriesCoordinates(entry, r) ==
    /\ entry.text = "Address saved to database"
    /\ entry.data.latitude = r.latitude
    /\ entry.data.longitude = r.longitude

\* C6: every input row that reached a terminal state or aborted the batch has
\* a log record carrying its coordinate pair.
C6_EveryOutcomeLogged ==
    \A k \in Rows :
        row_state[k] # "Pending" =>
            \E i \in LogOf(k) : CarriesCoordinates(log[i], dataset[k])

OptionalColumns == {"distance_km", "bearing_degrees"}

\* C7: on an input without the optional columns distance_km and
\* bearing_degrees no error other than the resolver's ApiError leaves the
\* pipeline: every row ends in a terminal state or the batch is aborted by it.
C7_OptionalColumnsOptional ==
    (OptionalColumns \cap SeqToSet(columns) = {}) =>
        /\ status \in {"running", "returned", "SystemExit"}
        /\ status = "returned" => \A k \in Rows : row_state[k] \in TerminalStates

\* rows of table t with the coordinate pair of input row r
RowsWith(t, r) ==
    {i \in 1..Len(t) : t[i].latitude = r.latitude /\ t[i].longitude = r.longitude}

\* inserts of op that succeeded for input rows with the coordinate pair of r
OkInsertsWith(op, r) ==
    {i \in OkInserts(op) : dataset[calls[i].row].latitude = r.latitude
                           /\ dataset[calls[i].row].longitude = r.longitude}

\* input rows whose coordinate insert succeeded and whose address insert raised
PartialRows ==
    {k \in Rows : InsertsOk("insert_coordinate", k) # {}
                  /\ InsertsRaised("insert_address", k) # {}}

\* C10: when the coordinate insert of a row succeeds and its address insert
\* raises, the coordinate row stays in coordinate_points without an addresses
\* row for it, save_to_database returns normally and the loop takes the next
\* row.
C10_PartialPersistence ==
    \A k \in PartialRows :
        /\ Cardinality(RowsWith(coordinate_points, dataset[k]))
             = Cardinality(OkInsertsWith("insert_coordinate", dataset[k]))
        /\ Cardinality(RowsWith(addresses, dataset[k]))
             = Cardinality(OkInsertsWith("insert_address", dataset[k]))
        /\ InsertsOk("insert_address", k) = {}
        /\ row_state[k] \in StoreSkipped
        /\ row > k
        /\ status \notin {"IntegrityError", "Exception"}

\* one coordinate row and no address row after the first input row, and the
\* resolver has already been called for the second
C10_Witness ==
    /\ PartialRows = {1}
    /\ Len(coordinate_points) = 1
    /\ addresses = <<>>
    /\ status = "running"
    /\ CallsOf("reverse_geocode", 2) # {}

\* the step just taken wrote to table addresses
AddressesWritten == addresses' # addresses

\* C11: starting from empty tables, every addresses row is written for an
\* input row whose merged address has exactly the nine required keys, carries
\* that row's latitude and longitude, and follows a successful coordinate
\* insert of the same row: the address insert comes right after it, so every
\* address is matched by an earlier coordinate_points row.
C11_AddressHasCoordinate ==
    /\ [][AddressesWritten =>
            /\ pc = "insert_address"
            /\ Len(addresses') = Len(addresses) + 1
            /\ SubSeq(addresses', 1, Len(addresses)) = addresses
            /\ KeySet(complete_address.items) = NineRequiredNames
            /\ addresses'[Len(addresses')].latitude = dataset[row].latitude
            /\ addresses'[Len(addresses')].longitude = dataset[row].longitude
            /\ InsertsOk("insert_coordinate", row) # {}
            /\ coordinate_points # <<>>
            /\ coordinate_points[Len(coordinate_points)].latitude = dataset[row].latitude
            /\ coordinate_points[Len(coordinate_points)].longitude = dataset[row].longitude
            /\ coordinate_points' = coordinate_points]_vars
    /\ [](\A i \in 1..Len(calls) :
            calls[i].op = "insert_address" =>
                /\ i > 1
                /\ calls[i - 1].op = "insert_coordinate"
                /\ calls[i - 1].outcome = "ok"
                /\ calls[i - 1].row = calls[i].row)
    /\ [](/\ Len(addresses) = Cardinality(OkInserts("insert_address"))
          /\ \A k \in Rows :
               Cardinality(RowsWith(addresses, dataset[k]))
                 <= Cardinality(RowsWith(coordinate_points, dataset[k])))

\* two addresses with different coordinates around a row whose address insert
\* raised: three coordinate rows, two address rows
C11_Witness ==
    /\ Len(dataset) = 3
    /\ row_state[1] = "Persisted"
    /\ row_state[2] = "SkippedConflict"
    /\ row_state[3] = "Persisted"
    /\ Len(coordinate_points) = 3
    /\ Len(addresses) = 2
    /\ addresses[1].latitude # addresses[2].latitude
    /\ addresses[2].latitude = dataset[3].latitude

\* the step just taken issued an external call (resolver or insert)
CallIssued == Len(calls') > Len(calls)

\* table t' is table t, possibly with one row appended
GrownBy(t, n) == Len(t') = Len(t) + n /\ SubSeq(t', 1, Len(t)) = t

\* C12: rows are processed one at a time in input order: a resolver call or an
\* insert is issued only for the current row, which is still pending, while
\* every earlier row is terminal; the loop moves on only when the current row
\* became terminal; a terminal row keeps its state, is not resolved again, and
\* the tables change only by an append made for the current pending row.
C12_OneRowAtATime ==
    [][/\ CallIssued =>
            /\ calls' = Append(calls, calls'[Len(calls')])
            /\ calls'[Len(calls')].row = row
            /\ row \in Rows
            /\ row_state[row] = "Pending"
            /\ \A j \in 1..(row - 1) : row_state[j] \in TerminalStates
            /\ \A i \in 1..Len(calls) : calls[i].row <= row
            /\ calls'[Len(calls')].op = "reverse_geocode" =>
                 CallsOf("reverse_geocode", row) = {}
       /\ row' \in {row, row + 1}
       /\ row' = row + 1 =>
            /\ row_state[row] = "Pending"
            /\ row_state'[row] \in TerminalStates
       /\ \A k \in Rows :
            row_state[k] \in TerminalStates => row_state'[k] = row_state[k]
       /\ \/ coordinate_points' = coordinate_points
          \/ /\ GrownBy(coordinate_points, 1)
             /\ CallIssued
             /\ calls'[Len(calls')].op = "insert_coordinate"
       /\ \/ addresses' = addresses
          \/ /\ GrownBy(addresses, 1)
             /\ CallIssued
             /\ calls'[Len(calls')].op = "insert_address"]_vars

\* three rows ended in three different states, one after the other, and the
\* run returned
C12_Witness ==
    /\ Len(dataset) = 3
    /\ row_state[1] = "Persisted"
    /\ row_state[2] = "SkippedNotFound"
    /\ row_state[3] = "SkippedStoreFailure"
    /\ status = "returned"
    /\ Len(calls) = 7
    /\ \A i \in 1..(Len(calls) - 1) : calls[i].row <= calls[i + 1].row

---------------------------------------------------------------------------
(* Claims about the batch run of transform_csv_to_database.py *)

SevenAddressFields ==
    {"country", "state", "city", "neighborhood", "street_number",
     "street_name", "postal_code"}

\* the row passed `if self.is_address_valid(complete_address):`
CsvAccepted == pc \in {"build", "insert_coordinate", "insert_address"}

\* C9: is_address_valid (transform_csv_to_database.py) accepts only an address
\* in which every required field is present, so no row whose extracted address
\* misses a field is inserted into addresses.
C9_OnlyCompleteAddressesSaved ==
    /\ CsvAccepted =>
           SeqToSet(RequiredKeysCsv) \subseteq KeySet(complete_address.items)
    /\ \A i \in 1..Len(addresses) :
           \A f \in SevenAddressFields : addresses[i][f] # NoneValue

---------------------------------------------------------------------------
(* Claims about the pure functions *)

FieldOfTag ==
    {<<"country", "country", "long_name">>,
     <<"state", "administrative_area_level_1", "short_name">>,
     <<"city", "administrative_area_level_2", "long_name">>,
     <<"neighborhood", "sublocality_level_1", "long_name">>,
     <<"street_number", "street_number", "long_name">>,
     <<"street_name", "route", "long_name">>,
     <<"postal_code", "postal_code", "long_name">>}

\* positions of the components of list cs that carry tag
Carriers(cs, tag) ==
    {i \in 1..Len(cs) : "types" \in DOMAIN cs[i] /\ tag \in cs[i].types}

LastOf(S) == CHOOSE m \in S : \A x \in S : x <= m

NameOf(component, attr) ==
    IF attr \in DOMAIN component THEN component[attr] ELSE NoneValue

\* the fields of a function result (None has none)
ItemsOf(v) == IF v.py = "dict" THEN v.items ELSE <<>>

\* C4: in the result of get_address_from_address_components each of the seven
\* fields is present iff some component carries its tag, its value is the long
\* name (short name for state) of the last component carrying the tag, and no
\* other field is produced.
C4_ExtractedFields ==
    pc = "extracted" =>
        LET cs == arg.address_components
            items == ItemsOf(complete_address)
        IN  /\ KeySet(items) \subseteq {m[1] : m \in FieldOfTag}
            /\ \A m \in FieldOfTag :
                 /\ (m[1] \in KeySet(items)) <=> (Carriers(cs, m[2]) # {})
                 /\ Carriers(cs, m[2]) # {} =>
                      DictGet(items, m[1]) = NameOf(cs[LastOf(Carriers(cs, m[2]))], m[3])

\* two components carry the tag of state with different names, the first one
\* carries a second recognized tag, and the state is the short name of the last
C4_Witness ==
    /\ pc = "extracted"
    /\ Len(arg.address_components) = 2
    /\ arg.address_components[1] =
         [types |-> {"country", "administrative_area_level_1", "administrative_area_level_2",
                     "sublocality_level_1", "street_number", "route"},
          long_name |-> "Brasil", short_name |-> "BR"]
    /\ arg.address_components[2] =
         [types |-> {"administrative_area_level_1"},
          long_name |-> "Rio Grande do Sul", short_name |-> "RS"]
    /\ DictGet(ItemsOf(complete_address), "state") = "RS"
    /\ DictGet(ItemsOf(complete_address), "country") = "Brasil"

\* tags carried by some component of list cs
TagsOf(cs) ==
    UNION {cs[i].types : i \in {j \in 1..Len(cs) : "types" \in DOMAIN cs[j]}}

\* C8: a component list with all seven recognized tags yields, after latitude
\* and longitude are merged in, an address that is_address_valid accepts; a
\* list missing one of the seven tags yields one it rejects.
C8_RoundTrip ==
    pc = "validated" => (valid = (RecognizedTags \subseteq TagsOf(arg.address_components)))

\* the seven tags spread over two components, accepted after the merge
C8_Witness ==
    /\ pc = "validated"
    /\ valid = TRUE
    /\ Len(arg.address_components) = 2
    /\ "postal_code" \notin TagsOf(SubSeq(arg.address_components, 1, 1))
    /\ KeySet(complete_address.items) = NineRequiredNames

===========================================================================
